---- MODULE Spec2Model ----
(***************************************************************************)
(* A model of cpp-simd (namespace sight): the AlignedStorage<T, Align>     *)
(* smart pointer of src/src/simd.hpp and the Vect128i / Vect128f wrappers  *)
(* of src/src/simd_128.hpp.                                                *)
(*                                                                         *)
(* Memory is modelled at byte level.  A 32-bit lane is four bytes, least   *)
(* significant first (x86 is little-endian), so that 32-bit wrap-around,   *)
(* the 64-bit products of the multiply fallback and the byte shift         *)
(* _mm_srli_si128 are computed as the hardware computes them, without ever *)
(* leaving the range of the integers the model checker can hold.           *)
(***************************************************************************)
EXTENDS Integers, Sequences, FiniteSets, TLC

\* ------------------------------------------------------------------ bounds
\* the template parameter Align ranges over 1..MaxAlign
MaxAlign == 3
\* the constructor's length ranges over 0..MaxLength
MaxLength == 2
\* malloc returns an address in 1..MaxAddr (every residue modulo Align)
MaxAddr == 3
\* handles (the original AlignedStorage and its copies) are named 1..MaxHandles
MaxHandles == 2
\* the int32_t buffer that vectors are stored to and loaded from has BufLen elements
BufLen == 5

VARIABLES
    TSize,      \* sizeof(T), fixed by the template instantiation
    Align,      \* the template parameter Align
    block,      \* what malloc returned: [base, size]
    heap,       \* the bytes of the block while it is live: address -> byte
    handles,    \* live AlignedStorage objects: name -> [length, raw, raw_val, aligned]
    use_count,  \* the shared_ptr control block's count of owners of raw
    freed,      \* the pointers passed to free, in order
    oob,        \* TRUE once a write has touched a byte outside the live block
    last,       \* the AlignedStorage operation that ran last: [op, h, i]
    ret,        \* the pointer / reference the last operation returned (NullPtr: none)
    err,        \* "none", or the exception the last operation threw
    HAVE_SSE41, \* whether the build defines HAVE_SSE41 (__SSE4_1__)
    a_in,       \* the caller's four int32_t from which va was constructed
    b_in,       \* the caller's four int32_t from which vb was constructed
    va,         \* a Vect128i: the 16 bytes of its __m128i val
    vb,         \* a second Vect128i
    vr,         \* the Vect128i that receives results
    sr,         \* the int32_t that receives the result of operator[]
    buf,        \* the bytes of an int32_t buffer that starts on a 16-byte boundary
    stored,     \* the last store: [p, v], the pointer and the vector stored
    fault,      \* TRUE once an aligned load or store of a misaligned pointer trapped
    vlast,      \* the vector operation that ran last: [op, p, k]
    fa_in,      \* the caller's four floats from which fa was constructed
    fb_in,      \* the caller's four floats from which fb was constructed
    fa,         \* a Vect128f: the 16 bytes of its __m128 val
    fb,         \* a second Vect128f
    fr          \* the Vect128f that receives results

storage_vars == <<TSize, Align, block, heap, handles, use_count, freed, oob, last, ret, err>>

vect_vars == <<HAVE_SSE41, a_in, b_in, va, vb, vr, sr, buf, stored, fault, vlast>>

float_vars == <<fa_in, fb_in, fa, fb, fr>>

vars == <<storage_vars, vect_vars, float_vars>>

\* ------------------------------------------------------- AlignedStorage
\* a byte malloc has not initialised
Undef == -1
NullPtr == 0

Handles == 1..MaxHandles

\* sizeof(T) for the element types of the tests: char, and int32_t or float
TSizes == {1, 4}

\* the element value the caller writes through operator[] and at(): every byte
\* of it that fits the element is non-zero
WriteVals == {16843009}

\* A mutant: one byte of padding less.
AllocSizeOneLess(len, S, A) == (len * S) + (A - 1)

\* malloc((length * sizeof(T)) + Align)
AllocSize(len, S, A) == (len * S) + A

\* A mutant: an aligned raw pointer is kept as it is.
AlignedPtrKeepsAligned(rv, A) == rv + ((A - (rv % A)) % A)

\* A mutant: the remainder is added instead of its complement.
AlignedPtrAddsRemainder(rv, A) == rv + (rv % A)

\* aligned(raw_val + (Align - (raw_val % Align)))
AlignedPtr(rv, A) == rv + (A - (rv % A))

\* The member initialisers, in declaration order: length, raw, raw_val, aligned.
Construct(len, p, A) ==
    [length |-> len, raw |-> p, raw_val |-> p, aligned |-> AlignedPtr(p, A)]

\* T* arithmetic: aligned + i, the address of aligned[i]
ElemAddr(st, i) == st.aligned + (i * TSize)

\* The bytes of the element value v, least significant first.
RECURSIVE Pow256(_)
Pow256(k) == IF k = 0 THEN 1 ELSE 256 * Pow256(k - 1)

ElemBytes(v) == [k \in 1..TSize |-> (v \div Pow256(k - 1)) % 256]

\* n bytes written at addr; bytes beyond the block are lost (and flagged by Outside)
WriteBytes(mem, addr, bytes) ==
    [a \in DOMAIN mem |->
        IF a >= addr /\ a < addr + Len(bytes) THEN bytes[(a - addr) + 1] ELSE mem[a]]

\* whether [addr, addr + n) leaves the live block
Outside(mem, addr, n) == \E a \in addr..(addr + n - 1) : a \notin DOMAIN mem

\* A mutant: memset over the whole allocation size instead of the payload.
ClearBytesWithPadding(st) == AllocSize(st.length, TSize, Align)

\* memset(aligned, 0, length * sizeof(T)): the number of bytes set
ClearBytes(st) == st.length * TSize

\* A mutant: an off-by-one bounds check.
AtThrowsOffByOne(st, i) == i < 0 \/ i > st.length

\* if (i < 0 || i >= length) throw std::out_of_range
AtThrows(st, i) == i < 0 \/ i >= st.length

\* A mutant: the block is freed by every destructor, not by the last owner's.
LastOwnerAlways(count) == TRUE

\* shared_ptr: the deleter runs when the count of owners drops to zero
LastOwner(count) == count - 1 = 0

NoOp == [op |-> "construct", h |-> 1, i |-> 0]

StorageInit ==
    /\ TSize \in TSizes
    /\ Align \in 1..MaxAlign
    /\ \E len \in 0..MaxLength, p \in 1..MaxAddr :
          /\ handles = [h \in {1} |-> Construct(len, p, Align)]
          /\ block = [base |-> p, size |-> AllocSize(len, TSize, Align)]
          /\ heap = [a \in p..(p + AllocSize(len, TSize, Align) - 1) |-> Undef]
    /\ use_count = 1
    /\ freed = <<>>
    /\ oob = FALSE
    /\ last = NoOp
    /\ ret = NullPtr
    /\ err = "none"
    \* no vector is in use
    /\ HAVE_SSE41 = FALSE
    /\ a_in = <<0, 0, 0, 0>>
    /\ b_in = <<0, 0, 0, 0>>
    /\ va = [k \in 1..16 |-> 0]
    /\ vb = [k \in 1..16 |-> 0]
    /\ vr = [k \in 1..16 |-> 0]
    /\ sr = 0
    /\ buf = <<>>
    /\ stored = [p |-> NullPtr, v |-> <<>>]
    /\ fault = FALSE
    /\ vlast = [op |-> "none", p |-> 0, k |-> 0]
    \* no Vect128f is in use
    /\ fa_in = <<>>
    /\ fb_in = <<>>
    /\ fa = [k \in 1..16 |-> 0]
    /\ fb = [k \in 1..16 |-> 0]
    /\ fr = [k \in 1..16 |-> 0]

\* AlignedStorage(const AlignedStorage&): every member is copied, raw gains an owner
Copy(h, h2) ==
    /\ h \in DOMAIN handles
    /\ h2 \in Handles \ DOMAIN handles
    /\ handles' = [x \in DOMAIN handles \cup {h2} |->
                      IF x = h2 THEN handles[h] ELSE handles[x]]
    /\ use_count' = use_count + 1
    /\ last' = [op |-> "copy", h |-> h2, i |-> 0]
    /\ ret' = NullPtr
    /\ err' = "none"
    /\ UNCHANGED <<vect_vars, float_vars>>
    /\ UNCHANGED <<TSize, Align, block, heap, freed, oob>>

\* ~AlignedStorage(): raw loses an owner; the last owner calls free(raw.get())
Destroy(h) ==
    /\ h \in DOMAIN handles
    /\ handles' = [x \in DOMAIN handles \ {h} |-> handles[x]]
    /\ use_count' = use_count - 1
    /\ IF LastOwner(use_count)
          THEN /\ freed' = Append(freed, handles[h].raw)
               /\ heap' = [a \in {} |-> Undef]
          ELSE UNCHANGED <<freed, heap>>
    /\ last' = [op |-> "destroy", h |-> h, i |-> 0]
    /\ ret' = NullPtr
    /\ err' = "none"
    /\ UNCHANGED <<vect_vars, float_vars>>
    /\ UNCHANGED <<TSize, Align, block, oob>>

\* clear()
Clear(h) ==
    /\ h \in DOMAIN handles
    /\ LET st == handles[h]
           n == ClearBytes(st)
       IN /\ heap' = WriteBytes(heap, st.aligned, [k \in 1..n |-> 0])
          /\ oob' = (oob \/ Outside(heap, st.aligned, n))
    /\ last' = [op |-> "clear", h |-> h, i |-> 0]
    /\ ret' = NullPtr
    /\ err' = "none"
    /\ UNCHANGED <<vect_vars, float_vars>>
    /\ UNCHANGED <<TSize, Align, block, handles, use_count, freed>>

\* operator T*()
ToPtr(h) ==
    /\ h \in DOMAIN handles
    /\ ret' = handles[h].aligned
    /\ last' = [op |-> "ptr", h |-> h, i |-> 0]
    /\ err' = "none"
    /\ UNCHANGED <<vect_vars, float_vars>>
    /\ UNCHANGED <<TSize, Align, block, heap, handles, use_count, freed, oob>>

\* operator+(int i), with i up to one past the end as for any pointer
Plus(h, i) ==
    /\ h \in DOMAIN handles
    /\ i \in 0..handles[h].length
    /\ ret' = ElemAddr(handles[h], i)
    /\ last' = [op |-> "plus", h |-> h, i |-> i]
    /\ err' = "none"
    /\ UNCHANGED <<vect_vars, float_vars>>
    /\ UNCHANGED <<TSize, Align, block, heap, handles, use_count, freed, oob>>

\* storage[i] = v, for an index the caller keeps in [0, length)
IndexWrite(h, i, v) ==
    /\ h \in DOMAIN handles
    /\ i \in 0..(handles[h].length - 1)
    /\ LET addr == ElemAddr(handles[h], i)
       IN /\ heap' = WriteBytes(heap, addr, ElemBytes(v))
          /\ oob' = (oob \/ Outside(heap, addr, TSize))
          /\ ret' = addr
    /\ last' = [op |-> "index", h |-> h, i |-> i]
    /\ err' = "none"
    /\ UNCHANGED <<vect_vars, float_vars>>
    /\ UNCHANGED <<TSize, Align, block, handles, use_count, freed>>

\* storage.at(i) = v, for any index
AtWrite(h, i, v) ==
    /\ h \in DOMAIN handles
    /\ i \in (-1)..(handles[h].length + 1)
    /\ last' = [op |-> "at", h |-> h, i |-> i]
    /\ IF AtThrows(handles[h], i)
          THEN /\ err' = "out_of_range"
               /\ ret' = NullPtr
               /\ UNCHANGED <<heap, oob>>
          ELSE LET addr == ElemAddr(handles[h], i)
               IN /\ err' = "none"
                  /\ ret' = addr
                  /\ heap' = WriteBytes(heap, addr, ElemBytes(v))
                  /\ oob' = (oob \/ Outside(heap, addr, TSize))
    /\ UNCHANGED <<vect_vars, float_vars>>
    /\ UNCHANGED <<TSize, Align, block, handles, use_count, freed>>

StorageNext ==
    \/ \E h \in Handles, h2 \in Handles : Copy(h, h2)
    \/ \E h \in Handles : Destroy(h)
    \/ \E h \in Handles : Clear(h)
    \/ \E h \in Handles : ToPtr(h)
    \/ \E h \in Handles, i \in 0..MaxLength : Plus(h, i)
    \/ \E h \in Handles, i \in 0..MaxLength, v \in WriteVals : IndexWrite(h, i, v)
    \/ \E h \in Handles, i \in (-1)..(MaxLength + 1), v \in WriteVals : AtWrite(h, i, v)

SpecStorage == StorageInit /\ [][StorageNext]_vars

\* ---------------------------------------------- AlignedStorage: properties
\* the addresses of the length elements of a handle
Payload(st) == st.aligned..(st.aligned + (st.length * TSize) - 1)

\* C1: the pointer AlignedStorage exposes (the conversion to T*, operator+ with
\* 0) is a multiple of Align, for every element size, Align, length and raw
\* address, at construction and after any operator[] write, at() call and
\* clear(); and no such step changes a handle's aligned pointer or length.
C1_AlignedPointer ==
    /\ [](/\ \A h \in DOMAIN handles : handles[h].aligned % Align = 0
          /\ (last.op = "ptr" \/ (last.op = "plus" /\ last.i = 0))
                => (ret % Align = 0 /\ ret = handles[last.h].aligned))
    /\ [][\A h \in DOMAIN handles \cap DOMAIN handles' :
            /\ handles'[h].aligned = handles[h].aligned
            /\ handles'[h].length = handles[h].length]_vars

\* C1 witness: the pointer is exposed after writes and a clear(), for a raw
\* address that was not itself aligned.
C1_Witness ==
    /\ last.op = "ptr"
    /\ Align = MaxAlign
    /\ block.base % Align # 0
    /\ ret % Align = 0
    /\ \E a \in DOMAIN heap : heap[a] = 0
    /\ \E a \in DOMAIN heap : heap[a] > 0

\* C2: at(i) throws out_of_range exactly when i < 0 or i >= length, otherwise
\* it yields the element at index i of the aligned buffer (the one operator[]
\* and operator+ reach); a throwing at() changes no byte and no field; no other
\* operation throws.
C2_AtBoundsCheck ==
    /\ [](/\ last.op = "at" =>
                ((err = "out_of_range") <=>
                    (last.i < 0 \/ last.i >= handles[last.h].length))
          /\ last.op # "at" => err = "none"
          /\ (last.op \in {"at", "index", "plus"} /\ err = "none")
                => ret = handles[last.h].aligned + (last.i * TSize)
          /\ (last.op \in {"at", "index"} /\ err = "none")
                => \A a \in ret..(ret + TSize - 1) :
                      a \in DOMAIN heap /\ heap[a] \notin {Undef, 0})
    /\ [][err' = "out_of_range" =>
            /\ heap' = heap
            /\ handles' = handles
            /\ <<use_count', freed', oob'>> = <<use_count, freed, oob>>]_vars

\* C2 witness: at(length) has thrown on a storage that holds written elements.
C2_Witness ==
    /\ last.op = "at"
    /\ err = "out_of_range"
    /\ last.i = handles[last.h].length
    /\ last.i > 0
    /\ \E a \in DOMAIN heap : heap[a] > 0

\* C3: the raw allocation is freed exactly once, when the last handle sharing
\* it is destroyed: the block is live while any handle exists, free is called
\* at most once, and with the pointer malloc returned (never the aligned one).
C3_FreedOnceByLastOwner ==
    /\ Len(freed) <= 1
    /\ (Len(freed) = 1) <=> (DOMAIN handles = {})
    /\ use_count = Cardinality(DOMAIN handles)
    /\ \A k \in DOMAIN freed : freed[k] = block.base
    /\ \A h \in DOMAIN handles :
          /\ DOMAIN heap = block.base..(block.base + block.size - 1)
          /\ Payload(handles[h]) \subseteq DOMAIN heap
          /\ handles[h].raw = block.base
          /\ handles[h].aligned # handles[h].raw

\* C3 witness: the original was destroyed first and the copy last, which freed
\* the block.
C3_Witness ==
    /\ last = [op |-> "destroy", h |-> 2, i |-> 0]
    /\ DOMAIN handles = {}
    /\ freed = <<block.base>>

\* C4: clear() leaves every one of the length elements zero, whatever they
\* held, and changes nothing else: not length, not the aligned pointer, not a
\* byte of the allocation outside the elements.
C4_ClearFrame ==
    [][last'.op = "clear" =>
        /\ DOMAIN heap' = DOMAIN heap
        /\ \A a \in DOMAIN heap :
              heap'[a] = IF a \in Payload(handles[last'.h]) THEN 0 ELSE heap[a]
        /\ handles' = handles
        /\ <<use_count', freed', oob', block'>> = <<use_count, freed, oob, block>>]_vars

\* C4 witness: clear() ran on a full-length storage whose block has bytes
\* after the last element.
C4_Witness ==
    /\ last.op = "clear"
    /\ handles[last.h].length = MaxLength
    /\ \A a \in Payload(handles[last.h]) : heap[a] = 0
    /\ \E a \in DOMAIN heap : a > handles[last.h].aligned + (MaxLength * TSize) - 1

\* the distance between the raw pointer and the aligned pointer of a handle
Distance(st) == st.aligned - st.raw_val

\* C16 as claimed: the distance d between the raw pointer p and the aligned
\* pointer is the smallest d with (p + d) % Align = 0 and 0 <= d < Align; d = 0
\* when p is a multiple of Align, so at most Align - 1 bytes precede the
\* payload.
C16_SmallestOffset ==
    \A h \in DOMAIN handles :
        /\ Distance(handles[h]) >= 0
        /\ Distance(handles[h]) < Align
        /\ (handles[h].raw_val + Distance(handles[h])) % Align = 0
        /\ handles[h].raw_val % Align = 0 => Distance(handles[h]) = 0

\* C16, amended: the distance d between the raw pointer p and the aligned
\* pointer is Align - (p % Align), the smallest d with (p + d) % Align = 0 and
\* 0 < d <= Align; d = Align when p is a multiple of Align, so at least one
\* and at most Align bytes of the allocation precede the payload.
C16_SmallestPositiveOffset ==
    \A h \in DOMAIN handles :
        LET d == Distance(handles[h])
            p == handles[h].raw_val
        IN /\ d >= 1
           /\ d <= Align
           /\ (p + d) % Align = 0
           /\ \A d2 \in 1..(d - 1) : (p + d2) % Align # 0
           /\ p % Align = 0 => d = Align
           /\ p = block.base

\* C16 witness: the pointer has been exposed for a raw address that was a
\* multiple of the largest Align, a whole Align below the aligned pointer.
C16_Witness ==
    /\ last.op = "ptr"
    /\ Align = MaxAlign
    /\ handles[last.h].raw_val % Align = 0
    /\ ret = handles[last.h].raw_val + Align

\* C17: for every raw address, Align and length the payload of length elements
\* at the aligned pointer lies inside the allocation: aligned >= p and
\* aligned + length * sizeof(T) <= p + length * sizeof(T) + Align; no write
\* through operator[], at() or clear() touches a byte outside it.
C17_PayloadInsideAllocation ==
    /\ \A h \in DOMAIN handles :
          /\ handles[h].aligned >= handles[h].raw_val
          /\ handles[h].aligned + (handles[h].length * TSize)
                <= handles[h].raw_val + (handles[h].length * TSize) + Align
          /\ handles[h].raw_val = block.base
          /\ handles[h].aligned + (handles[h].length * TSize) <= block.base + block.size
          /\ Payload(handles[h]) \subseteq DOMAIN heap
    /\ ~oob

\* C17 witness: the last element of a payload that ends on the last byte of
\* the allocation has been written.
C17_Witness ==
    /\ last.op = "index"
    /\ handles[last.h].length = MaxLength
    /\ last.i = MaxLength - 1
    /\ handles[last.h].aligned + (MaxLength * TSize) = block.base + block.size
    /\ heap[(block.base + block.size) - 1] # Undef
    /\ ~oob

\* ---------------------------------------------------------------- __m128i
\* a __m128i is 16 bytes, least significant first; 32-bit lane k is bytes
\* 4k+1 .. 4k+4
Lanes == 4

MinInt32 == (-2147483647) - 1

\* the two's complement bytes of an int32_t
ToBytes32(x) ==
    <<x % 256, (x \div 256) % 256, (x \div 65536) % 256, (x \div 16777216) % 256>>

\* the int32_t that four bytes hold
FromBytes32(b) ==
    b[1] + (256 * b[2]) + (65536 * b[3])
         + (16777216 * (IF b[4] >= 128 THEN b[4] - 256 ELSE b[4]))

Lane(v, k) == SubSeq(v, (4 * k) + 1, (4 * k) + 4)

\* A mutant: _mm_set_epi32, which takes the highest lane first.
mm_set_epi32(e0, e1, e2, e3) ==
    ToBytes32(e3) \o ToBytes32(e2) \o ToBytes32(e1) \o ToBytes32(e0)

\* _mm_setr_epi32: the first argument is the lowest lane
mm_setr_epi32(e0, e1, e2, e3) ==
    ToBytes32(e0) \o ToBytes32(e1) \o ToBytes32(e2) \o ToBytes32(e3)

mm_set1_epi32(i) == ToBytes32(i) \o ToBytes32(i) \o ToBytes32(i) \o ToBytes32(i)

\* byte-wise addition with carry, from byte k on
RECURSIVE AddCarry(_, _, _, _)
AddCarry(x, y, k, c) ==
    IF k > Len(x) THEN <<>>
    ELSE LET s == x[k] + y[k] + c
         IN <<s % 256>> \o AddCarry(x, y, k + 1, s \div 256)

\* byte-wise subtraction with borrow, from byte k on
RECURSIVE SubBorrow(_, _, _, _)
SubBorrow(x, y, k, b) ==
    IF k > Len(x) THEN <<>>
    ELSE LET d == (x[k] - y[k]) - b
         IN <<d % 256>> \o SubBorrow(x, y, k + 1, IF d < 0 THEN 1 ELSE 0)

Add32(x, y) == AddCarry(x, y, 1, 0)
Sub32(x, y) == SubBorrow(x, y, 1, 0)

\* A mutant: _mm_add_epi16, whose carries stop at every 16 bits.
mm_add_epi16(a, b) ==
    [k \in 1..16 |->
        LET lo == IF k % 2 = 1 THEN k ELSE k - 1
            s == AddCarry(SubSeq(a, lo, lo + 1), SubSeq(b, lo, lo + 1), 1, 0)
        IN s[(k - lo) + 1]]

\* paddd, psubd: the carry out of a lane is dropped
mm_add_epi32(a, b) ==
    Add32(Lane(a, 0), Lane(b, 0)) \o Add32(Lane(a, 1), Lane(b, 1))
        \o Add32(Lane(a, 2), Lane(b, 2)) \o Add32(Lane(a, 3), Lane(b, 3))

mm_sub_epi32(a, b) ==
    Sub32(Lane(a, 0), Lane(b, 0)) \o Sub32(Lane(a, 1), Lane(b, 1))
        \o Sub32(Lane(a, 2), Lane(b, 2)) \o Sub32(Lane(a, 3), Lane(b, 3))

\* four bytes widened to eight: by zeros (unsigned) or by the sign
ZeroExtend(x) == x \o <<0, 0, 0, 0>>
SignExtend(x) ==
    x \o (IF x[4] >= 128 THEN <<255, 255, 255, 255>> ELSE <<0, 0, 0, 0>>)

\* the sum of the byte products x[i] * y[j] of weight 256^n (i + j = n), i from i on
RECURSIVE Column(_, _, _, _)
Column(x, y, n, i) ==
    IF i > n THEN 0
    ELSE (x[i + 1] * y[(n - i) + 1]) + Column(x, y, n, i + 1)

\* the low 64 bits of the product of two 8-byte numbers, from byte n on
RECURSIVE MulColumns(_, _, _, _)
MulColumns(x, y, n, c) ==
    IF n > 7 THEN <<>>
    ELSE LET s == Column(x, y, n, 0) + c
         IN <<s % 256>> \o MulColumns(x, y, n + 1, s \div 256)

Mul64(x, y) == MulColumns(x, y, 0, 0)

\* pmulld: the low 32 bits of the signed 64-bit product of each lane pair
MulLo32(x, y) == SubSeq(Mul64(SignExtend(x), SignExtend(y)), 1, 4)

mm_mullo_epi32(a, b) ==
    MulLo32(Lane(a, 0), Lane(b, 0)) \o MulLo32(Lane(a, 1), Lane(b, 1))
        \o MulLo32(Lane(a, 2), Lane(b, 2)) \o MulLo32(Lane(a, 3), Lane(b, 3))

\* pmuludq: the unsigned 64-bit products of lanes 0 and of lanes 2
mm_mul_epu32(a, b) ==
    Mul64(ZeroExtend(Lane(a, 0)), ZeroExtend(Lane(b, 0)))
        \o Mul64(ZeroExtend(Lane(a, 2)), ZeroExtend(Lane(b, 2)))

\* psrldq: the whole register shifted right by n bytes, zeros shifted in
mm_srli_si128(v, n) == [k \in 1..16 |-> IF k + n <= 16 THEN v[k + n] ELSE 0]

\* _MM_SHUFFLE(z, y, x, w)
MM_SHUFFLE(z, y, x, w) == (z * 64) + (y * 16) + (x * 4) + w

\* pshufd: result lane k is the source lane named by bits 2k+1..2k of imm
mm_shuffle_epi32(v, imm) ==
    Lane(v, imm % 4) \o Lane(v, (imm \div 4) % 4)
        \o Lane(v, (imm \div 16) % 4) \o Lane(v, (imm \div 64) % 4)

\* punpckldq: the low two lanes of a and b, interleaved
mm_unpacklo_epi32(a, b) == Lane(a, 0) \o Lane(b, 0) \o Lane(a, 1) \o Lane(b, 1)

\* the bitwise operations on bytes, bit by bit
RECURSIVE XorBits(_, _)
XorBits(x, y) ==
    IF x = 0 /\ y = 0 THEN 0
    ELSE (((x % 2) + (y % 2)) % 2) + (2 * XorBits(x \div 2, y \div 2))

RECURSIVE AndBits(_, _)
AndBits(x, y) ==
    IF x = 0 \/ y = 0 THEN 0
    ELSE ((x % 2) * (y % 2)) + (2 * AndBits(x \div 2, y \div 2))

RECURSIVE OrBits(_, _)
OrBits(x, y) ==
    IF x = 0 /\ y = 0 THEN 0
    ELSE (IF (x % 2) + (y % 2) > 0 THEN 1 ELSE 0) + (2 * OrBits(x \div 2, y \div 2))

mm_xor_si128(a, b) == [k \in 1..16 |-> XorBits(a[k], b[k])]
mm_and_si128(a, b) == [k \in 1..16 |-> AndBits(a[k], b[k])]
mm_or_si128(a, b) == [k \in 1..16 |-> OrBits(a[k], b[k])]

\* pcmpgtd, pcmpeqd: a lane of ones where the signed relation holds, else of zeros
Mask32(t) == IF t THEN <<255, 255, 255, 255>> ELSE <<0, 0, 0, 0>>

mm_cmpgt_epi32(a, b) ==
    Mask32(FromBytes32(Lane(a, 0)) > FromBytes32(Lane(b, 0)))
        \o Mask32(FromBytes32(Lane(a, 1)) > FromBytes32(Lane(b, 1)))
        \o Mask32(FromBytes32(Lane(a, 2)) > FromBytes32(Lane(b, 2)))
        \o Mask32(FromBytes32(Lane(a, 3)) > FromBytes32(Lane(b, 3)))

\* _mm_cmplt_epi32(a, b) is pcmpgtd with the operands swapped
mm_cmplt_epi32(a, b) == mm_cmpgt_epi32(b, a)

mm_cmpeq_epi32(a, b) ==
    Mask32(Lane(a, 0) = Lane(b, 0)) \o Mask32(Lane(a, 1) = Lane(b, 1))
        \o Mask32(Lane(a, 2) = Lane(b, 2)) \o Mask32(Lane(a, 3) = Lane(b, 3))

\* --------------------------------------------------------------- Vect128i
\* Vect128i(int32_t i)
Vect128i1(i) == mm_set1_epi32(i)

\* Vect128i(int32_t i0, int32_t i1, int32_t i2, int32_t i3)
Vect128i4(i0, i1, i2, i3) == mm_setr_epi32(i0, i1, i2, i3)

\* operator[]: storeu into int32_t array[4], then array[idx]
OpIndex(v, idx) ==
    LET array == [k \in 0..(Lanes - 1) |-> FromBytes32(Lane(v, k))]
    IN array[idx]

OpAdd(v, w) == mm_add_epi32(v, w)
OpSub(v, w) == mm_sub_epi32(v, w)
OpAnd(v, w) == mm_and_si128(v, w)
OpOr(v, w) == mm_or_si128(v, w)
OpXor(v, w) == mm_xor_si128(v, w)

\* the int32_t that the literal 0xFFFFFFFF (an unsigned int) converts to
AllOnesInt32 == -1

\* operator~: operator^(Vect128i(0xFFFFFFFF))
OpNot(v) == OpXor(v, Vect128i1(AllOnesInt32))

\* operator* with HAVE_SSE41
OpMulNative(v, w) == mm_mullo_epi32(v, w)

\* A mutant: the second operand is not shifted for the odd lanes.
OpMulFallbackOneShift(v, w) ==
    LET t1 == mm_mul_epu32(v, w)
        t2 == mm_mul_epu32(mm_srli_si128(v, 4), w)
    IN mm_unpacklo_epi32(mm_shuffle_epi32(t1, MM_SHUFFLE(0, 0, 2, 0)),
                         mm_shuffle_epi32(t2, MM_SHUFFLE(0, 0, 2, 0)))

\* A mutant: the shuffle picks the high halves of the 64-bit products.
OpMulFallbackHighHalf(v, w) ==
    LET t1 == mm_mul_epu32(v, w)
        t2 == mm_mul_epu32(mm_srli_si128(v, 4), mm_srli_si128(w, 4))
    IN mm_unpacklo_epi32(mm_shuffle_epi32(t1, MM_SHUFFLE(0, 0, 3, 1)),
                         mm_shuffle_epi32(t2, MM_SHUFFLE(0, 0, 3, 1)))

\* operator* without HAVE_SSE41
OpMulFallback(v, w) ==
    LET t1 == mm_mul_epu32(v, w)
        t2 == mm_mul_epu32(mm_srli_si128(v, 4), mm_srli_si128(w, 4))
    IN mm_unpacklo_epi32(mm_shuffle_epi32(t1, MM_SHUFFLE(0, 0, 2, 0)),
                         mm_shuffle_epi32(t2, MM_SHUFFLE(0, 0, 2, 0)))

\* operator*: the path is chosen when the library is compiled
OpMul(v, w) == IF HAVE_SSE41 THEN OpMulNative(v, w) ELSE OpMulFallback(v, w)

OpLt(v, w) == mm_cmplt_epi32(v, w)
OpGt(v, w) == mm_cmpgt_epi32(v, w)
OpEq(v, w) == mm_cmpeq_epi32(v, w)

\* A mutant: <= as the complement of <.
OpLeNotLt(v, w) == OpNot(OpLt(v, w))

\* operator<=: ~(operator>(v))
OpLe(v, w) == OpNot(OpGt(v, w))

\* operator>=: ~(operator<(v))
OpGe(v, w) == OpNot(OpLt(v, w))

\* operator!=: ~(operator==(v))
OpNe(v, w) == OpNot(OpEq(v, w))

\* ------------------------------------------------- Vect128i: the program
\* lane values: zero, small values of both signs, the extremes of int32_t, and
\* values whose products leave 32 bits
LaneList == <<0, 1, -1, 2147483647, MinInt32, 65536, 46341, -3>>

\* four consecutive values of LaneList, from the i-th on
Window(i) == [k \in 1..Lanes |-> LaneList[((i + k - 2) % Len(LaneList)) + 1]]

\* the int32_t quadruples the caller builds vectors from: every window of
\* LaneList, and the quadruples of the tests
IntInputs ==
    {Window(i) : i \in 1..Len(LaneList)}
        \cup {<<0, -1, 1, 2147483647>>, <<1, 1, 1, 1>>, <<0, -1, 1, MinInt32>>,
              <<0, 1, -1, 2147483647>>, <<0, 0, 0, 0>>, <<0, 1, 2, 3>>,
              <<-1, 1, 2147483647, MinInt32>>}

\* a binary operator applied to va and vb, its result assigned to vr
Apply(name, result) ==
    /\ ~fault
    /\ vr' = result
    /\ vlast' = [op |-> name, p |-> 0, k |-> 0]
    /\ UNCHANGED <<HAVE_SSE41, a_in, b_in, va, vb, sr, buf, stored, fault>>
    /\ UNCHANGED <<storage_vars, float_vars>>

Add == Apply("add", OpAdd(va, vb))
Sub == Apply("sub", OpSub(va, vb))
Mul == Apply("mul", OpMul(va, vb))
And == Apply("and", OpAnd(va, vb))
Or == Apply("or", OpOr(va, vb))
Xor == Apply("xor", OpXor(va, vb))
Not == Apply("not", OpNot(va))
Lt == Apply("lt", OpLt(va, vb))
Le == Apply("le", OpLe(va, vb))
Gt == Apply("gt", OpGt(va, vb))
Ge == Apply("ge", OpGe(va, vb))
Eq == Apply("eq", OpEq(va, vb))
Ne == Apply("ne", OpNe(va, vb))

\* two vectors built with the four-value constructor, and an empty result
VecOpsInit ==
    /\ HAVE_SSE41 \in BOOLEAN
    /\ a_in \in IntInputs
    /\ b_in \in IntInputs
    /\ va = Vect128i4(a_in[1], a_in[2], a_in[3], a_in[4])
    /\ vb = Vect128i4(b_in[1], b_in[2], b_in[3], b_in[4])
    /\ vr = Vect128i1(0)
    /\ sr = 0
    /\ buf = <<>>
    /\ stored = [p |-> NullPtr, v |-> <<>>]
    /\ fault = FALSE
    /\ vlast = [op |-> "none", p |-> 0, k |-> 0]
    \* no Vect128f is in use
    /\ fa_in = <<>>
    /\ fb_in = <<>>
    /\ fa = [k \in 1..16 |-> 0]
    /\ fb = [k \in 1..16 |-> 0]
    /\ fr = [k \in 1..16 |-> 0]
    \* no AlignedStorage is in use
    /\ TSize = 1
    /\ Align = 1
    /\ block = [base |-> NullPtr, size |-> 0]
    /\ heap = <<>>
    /\ handles = <<>>
    /\ use_count = 0
    /\ freed = <<>>
    /\ oob = FALSE
    /\ last = NoOp
    /\ ret = NullPtr
    /\ err = "none"

VecOpsNext ==
    \/ Add \/ Sub \/ Mul \/ And \/ Or \/ Xor \/ Not
    \/ Lt \/ Le \/ Gt \/ Ge \/ Eq \/ Ne

SpecVecOps == VecOpsInit /\ [][VecOpsNext]_vars

\* ------------------------------------- Vect128i: loads, stores, operator[]
\* the alignment _mm_load_si128 and _mm_store_si128 require of their pointer
VecAlign == 16

\* isAligned<Align>(ptr): the address is a multiple of Align
IsAligned(A, addr) == addr % A = 0

\* sizeof(int32_t)
Int32Bytes == 4

\* an int32_t* into buf is the index p of the element it points to; buf starts
\* on a 16-byte boundary, so the pointer's address modulo 16 is that of 4 p
PtrAddr(p) == Int32Bytes * p

\* storeu(p), store(p): the 16 bytes of val, copied to p
OpStore(mem, p, v) == WriteBytes(mem, PtrAddr(p) + 1, v)

\* A mutant: the load starts one element late.
OpLoadNextElement(mem, p) == SubSeq(mem, PtrAddr(p) + 5, PtrAddr(p) + 20)

\* loadu(p), load(p): the 16 bytes at p
OpLoad(mem, p) == SubSeq(mem, PtrAddr(p) + 1, PtrAddr(p) + 16)

\* the pointers at which four elements lie inside buf
VecPtrs == 0..(BufLen - Lanes)

\* the caller's array before any store: BufLen different values
InitialArray == [e \in 1..BufLen |-> LaneList[(e % Len(LaneList)) + 1]]

\* the bytes of an int32_t array, element by element from element e on
RECURSIVE ArrayBytes(_, _)
ArrayBytes(arr, e) ==
    IF e > Len(arr) THEN <<>> ELSE ToBytes32(arr[e]) \o ArrayBytes(arr, e + 1)

\* va.storeu(p)
StoreU(p) ==
    /\ ~fault
    /\ buf' = OpStore(buf, p, va)
    /\ stored' = [p |-> p, v |-> va]
    /\ vlast' = [op |-> "storeu", p |-> p, k |-> 0]
    /\ UNCHANGED <<HAVE_SSE41, a_in, b_in, va, vb, vr, sr, fault>>
    /\ UNCHANGED <<storage_vars, float_vars>>

\* va.store(p): movdqa traps on a pointer that is not 16-byte aligned, unless
\* the compiler emitted an instruction that does not check
Store(p) ==
    /\ ~fault
    /\ \/ /\ buf' = OpStore(buf, p, va)
          /\ stored' = [p |-> p, v |-> va]
          /\ vlast' = [op |-> "store", p |-> p, k |-> 0]
          /\ UNCHANGED fault
       \/ /\ ~IsAligned(VecAlign, PtrAddr(p))
          /\ fault' = TRUE
          /\ vlast' = [op |-> "trap", p |-> p, k |-> 0]
          /\ UNCHANGED <<buf, stored>>
    /\ UNCHANGED <<HAVE_SSE41, a_in, b_in, va, vb, vr, sr>>
    /\ UNCHANGED <<storage_vars, float_vars>>

\* vr = Vect128i::loadu(p)
LoadU(p) ==
    /\ ~fault
    /\ vr' = OpLoad(buf, p)
    /\ vlast' = [op |-> "loadu", p |-> p, k |-> 0]
    /\ UNCHANGED <<HAVE_SSE41, a_in, b_in, va, vb, sr, buf, stored, fault>>
    /\ UNCHANGED <<storage_vars, float_vars>>

\* vr = Vect128i::load(p), with the trap of Store
Load(p) ==
    /\ ~fault
    /\ \/ /\ vr' = OpLoad(buf, p)
          /\ vlast' = [op |-> "load", p |-> p, k |-> 0]
          /\ UNCHANGED fault
       \/ /\ ~IsAligned(VecAlign, PtrAddr(p))
          /\ fault' = TRUE
          /\ vlast' = [op |-> "trap", p |-> p, k |-> 0]
          /\ UNCHANGED vr
    /\ UNCHANGED <<HAVE_SSE41, a_in, b_in, va, vb, sr, buf, stored>>
    /\ UNCHANGED <<storage_vars, float_vars>>

\* sr = va[k]
Index(k) ==
    /\ ~fault
    /\ sr' = OpIndex(va, k)
    /\ vlast' = [op |-> "index", p |-> 0, k |-> k]
    /\ UNCHANGED <<HAVE_SSE41, a_in, b_in, va, vb, vr, buf, stored, fault>>
    /\ UNCHANGED <<storage_vars, float_vars>>

\* a vector built with the four-value constructor, an array in memory, and an
\* empty result
VecMemInit ==
    /\ HAVE_SSE41 = FALSE
    /\ a_in \in IntInputs
    /\ b_in = <<0, 0, 0, 0>>
    /\ va = Vect128i4(a_in[1], a_in[2], a_in[3], a_in[4])
    /\ vb = Vect128i1(0)
    /\ vr = Vect128i1(0)
    /\ sr = 0
    /\ buf = ArrayBytes(InitialArray, 1)
    /\ stored = [p |-> NullPtr, v |-> <<>>]
    /\ fault = FALSE
    /\ vlast = [op |-> "none", p |-> 0, k |-> 0]
    \* no Vect128f is in use
    /\ fa_in = <<>>
    /\ fb_in = <<>>
    /\ fa = [k \in 1..16 |-> 0]
    /\ fb = [k \in 1..16 |-> 0]
    /\ fr = [k \in 1..16 |-> 0]
    \* no AlignedStorage is in use
    /\ TSize = 1
    /\ Align = 1
    /\ block = [base |-> NullPtr, size |-> 0]
    /\ heap = <<>>
    /\ handles = <<>>
    /\ use_count = 0
    /\ freed = <<>>
    /\ oob = FALSE
    /\ last = NoOp
    /\ ret = NullPtr
    /\ err = "none"

VecMemNext ==
    \/ \E p \in VecPtrs : StoreU(p)
    \/ \E p \in VecPtrs : Store(p)
    \/ \E p \in VecPtrs : LoadU(p)
    \/ \E p \in VecPtrs : Load(p)
    \/ \E k \in 0..(Lanes - 1) : Index(k)

SpecVecMem == VecMemInit /\ [][VecMemNext]_vars

\* ----------------------------------------------------------------- __m128
\* a float is its IEEE-754 binary32 encoding [s, e, m]: sign, biased exponent,
\* fraction; in memory and in a register it is four bytes, least significant
\* first
FloatBytes(f) ==
    <<f.m % 256, (f.m \div 256) % 256, (f.m \div 65536) + (128 * (f.e % 2)),
      (f.e \div 2) + (128 * f.s)>>

BytesFloat(b) ==
    [s |-> b[4] \div 128,
     e |-> (2 * (b[4] % 128)) + (b[3] \div 128),
     m |-> (65536 * (b[3] % 128)) + (256 * b[2]) + b[1]]

IsNaN(f) == f.e = 255 /\ f.m # 0

\* the magnitude bits of a float order as the magnitudes do; signed, they
\* order every pair of floats that are not NaN (both zeros are 0)
FloatKey(f) ==
    LET mag == (8388608 * f.e) + f.m
    IN IF f.s = 1 THEN 0 - mag ELSE mag

Unordered(x, y) == IsNaN(x) \/ IsNaN(y)

\* the predicates of cmpps on one pair of lanes
CmpLt(x, y) == ~Unordered(x, y) /\ FloatKey(x) < FloatKey(y)
CmpEq(x, y) == ~Unordered(x, y) /\ FloatKey(x) = FloatKey(y)
CmpNlt(x, y) == ~CmpLt(x, y)
CmpNeq(x, y) == ~CmpEq(x, y)

FLane(v, k) == BytesFloat(Lane(v, k))

\* _mm_setr_ps
mm_setr_ps(f0, f1, f2, f3) ==
    FloatBytes(f0) \o FloatBytes(f1) \o FloatBytes(f2) \o FloatBytes(f3)

mm_cmplt_ps(a, b) ==
    Mask32(CmpLt(FLane(a, 0), FLane(b, 0))) \o Mask32(CmpLt(FLane(a, 1), FLane(b, 1)))
        \o Mask32(CmpLt(FLane(a, 2), FLane(b, 2))) \o Mask32(CmpLt(FLane(a, 3), FLane(b, 3)))

mm_cmpnlt_ps(a, b) ==
    Mask32(CmpNlt(FLane(a, 0), FLane(b, 0))) \o Mask32(CmpNlt(FLane(a, 1), FLane(b, 1)))
        \o Mask32(CmpNlt(FLane(a, 2), FLane(b, 2))) \o Mask32(CmpNlt(FLane(a, 3), FLane(b, 3)))

mm_cmpeq_ps(a, b) ==
    Mask32(CmpEq(FLane(a, 0), FLane(b, 0))) \o Mask32(CmpEq(FLane(a, 1), FLane(b, 1)))
        \o Mask32(CmpEq(FLane(a, 2), FLane(b, 2))) \o Mask32(CmpEq(FLane(a, 3), FLane(b, 3)))

mm_cmpneq_ps(a, b) ==
    Mask32(CmpNeq(FLane(a, 0), FLane(b, 0))) \o Mask32(CmpNeq(FLane(a, 1), FLane(b, 1)))
        \o Mask32(CmpNeq(FLane(a, 2), FLane(b, 2))) \o Mask32(CmpNeq(FLane(a, 3), FLane(b, 3)))

\* _mm_cmpgt_ps(a, b) is cmpltps, and _mm_cmpngt_ps(a, b) cmpnltps, with the
\* operands swapped
mm_cmpgt_ps(a, b) == mm_cmplt_ps(b, a)
mm_cmpngt_ps(a, b) == mm_cmpnlt_ps(b, a)

\* --------------------------------------------------------------- Vect128f
\* Vect128f(float i0, float i1, float i2, float i3)
Vect128f4(f0, f1, f2, f3) == mm_setr_ps(f0, f1, f2, f3)

\* operator[]: storeu into float array[4], then array[idx]
OpIndexF(v, idx) ==
    LET array == [k \in 0..(Lanes - 1) |-> BytesFloat(Lane(v, k))]
    IN array[idx]

OpFLt(v, w) == mm_cmplt_ps(v, w)

\* A mutant: <= with the "not less than" instruction of >=.
OpFLeNotLess(v, w) == mm_cmpnlt_ps(v, w)

OpFLe(v, w) == mm_cmpngt_ps(v, w)
OpFGt(v, w) == mm_cmpgt_ps(v, w)
OpFGe(v, w) == mm_cmpnlt_ps(v, w)
OpFEq(v, w) == mm_cmpeq_ps(v, w)
OpFNe(v, w) == mm_cmpneq_ps(v, w)

\* -------------------------------------------------- Vect128f: the program
PZero == [s |-> 0, e |-> 0, m |-> 0]
NZero == [s |-> 1, e |-> 0, m |-> 0]
POne == [s |-> 0, e |-> 127, m |-> 0]
NOne == [s |-> 1, e |-> 127, m |-> 0]
\* 0.1f
PTenth == [s |-> 0, e |-> 123, m |-> 5033165]
\* 1.203f
P1203 == [s |-> 0, e |-> 127, m |-> 1702887]
\* the float that 2147483647 converts to: 2^31
PTwo31 == [s |-> 0, e |-> 158, m |-> 0]
\* 3.4e+29f and its negative
PBig == [s |-> 0, e |-> 225, m |-> 611117]
NBig == [s |-> 1, e |-> 225, m |-> 611117]
PInf == [s |-> 0, e |-> 255, m |-> 0]
NInf == [s |-> 1, e |-> 255, m |-> 0]
\* the smallest positive float, a denormal
PTiny == [s |-> 0, e |-> 0, m |-> 1]
\* the default quiet NaN, and the NaN with every bit set
QNaN == [s |-> 0, e |-> 255, m |-> 4194304]
OnesNaN == [s |-> 1, e |-> 255, m |-> 8388607]

FloatList ==
    <<PZero, POne, NOne, PTwo31, NZero, QNaN, PTenth, NBig, PInf, PTiny, P1203,
      NInf, PBig, OnesNaN>>

FWindow(i) == [k \in 1..Lanes |-> FloatList[((i + k - 2) % Len(FloatList)) + 1]]

\* the float quadruples the caller builds vectors from: every window of
\* FloatList, and the quadruples of the tests
FloatInputs ==
    {FWindow(i) : i \in 1..Len(FloatList)}
        \cup {<<PZero, POne, NOne, PTwo31>>, <<PZero, PZero, PZero, POne>>,
              <<PZero, POne, NOne, PBig>>, <<PZero, PZero, PZero, PZero>>}

\* a comparison of fa and fb, its result assigned to fr
ApplyF(name, result) ==
    /\ ~fault
    /\ fr' = result
    /\ vlast' = [op |-> name, p |-> 0, k |-> 0]
    /\ UNCHANGED <<HAVE_SSE41, a_in, b_in, va, vb, vr, sr, buf, stored, fault>>
    /\ UNCHANGED <<fa_in, fb_in, fa, fb>>
    /\ UNCHANGED storage_vars

FLt == ApplyF("flt", OpFLt(fa, fb))
FLe == ApplyF("fle", OpFLe(fa, fb))
FGt == ApplyF("fgt", OpFGt(fa, fb))
FGe == ApplyF("fge", OpFGe(fa, fb))
FEq == ApplyF("feq", OpFEq(fa, fb))
FNe == ApplyF("fne", OpFNe(fa, fb))

\* two float vectors built with the four-value constructor, and a result
VecFloatInit ==
    /\ fa_in \in FloatInputs
    /\ fb_in \in FloatInputs
    /\ fa = Vect128f4(fa_in[1], fa_in[2], fa_in[3], fa_in[4])
    /\ fb = Vect128f4(fb_in[1], fb_in[2], fb_in[3], fb_in[4])
    /\ fr = Vect128f4(PZero, PZero, PZero, PZero)
    \* no Vect128i is in use
    /\ HAVE_SSE41 = FALSE
    /\ a_in = <<0, 0, 0, 0>>
    /\ b_in = <<0, 0, 0, 0>>
    /\ va = [k \in 1..16 |-> 0]
    /\ vb = [k \in 1..16 |-> 0]
    /\ vr = [k \in 1..16 |-> 0]
    /\ sr = 0
    /\ buf = <<>>
    /\ stored = [p |-> NullPtr, v |-> <<>>]
    /\ fault = FALSE
    /\ vlast = [op |-> "none", p |-> 0, k |-> 0]
    \* no AlignedStorage is in use
    /\ TSize = 1
    /\ Align = 1
    /\ block = [base |-> NullPtr, size |-> 0]
    /\ heap = <<>>
    /\ handles = <<>>
    /\ use_count = 0
    /\ freed = <<>>
    /\ oob = FALSE
    /\ last = NoOp
    /\ ret = NullPtr
    /\ err = "none"

VecFloatNext == FLt \/ FLe \/ FGt \/ FGe \/ FEq \/ FNe

SpecVecFloat == VecFloatInit /\ [][VecFloatNext]_vars

\* ------------------------------------------- Vect128f: NOT and XOR
\* round to nearest, ties to even: the quotient q of a division whose
\* remainder r is compared with half the divisor
RoundNearestEven(q, r, half) ==
    IF r > half \/ (r = half /\ q % 2 = 1) THEN q + 1 ELSE q

\* the float a positive significand of at most 24 bits (q <= 2^24) and an
\* exponent give; a significand of 2^24 is 1.0 x 2^(e+1)
PackFloat(sign, e, q) ==
    IF q = 16777216 THEN [s |-> sign, e |-> e + 1, m |-> 0]
    ELSE [s |-> sign, e |-> e, m |-> q - 8388608]

\* conversion of an unsigned 32-bit value, given as its four bytes, with bit 31
\* set, to float: the top 24 bits are the significand, the low byte is rounded
UIntHighToFloat(b) ==
    LET q == (65536 * b[4]) + (256 * b[3]) + b[2]
    IN PackFloat(0, 158, RoundNearestEven(q, b[1], 128))

\* the literal 0xFFFFFFFF: an unsigned int
AllOnesUInt32 == <<255, 255, 255, 255>>

\* _mm_set1_ps
mm_set1_ps(f) == FloatBytes(f) \o FloatBytes(f) \o FloatBytes(f) \o FloatBytes(f)

\* A mutant: OR in place of XOR.
mm_or_ps_for_xor(a, b) == [k \in 1..16 |-> OrBits(a[k], b[k])]

\* _mm_xor_ps
mm_xor_ps(a, b) == [k \in 1..16 |-> XorBits(a[k], b[k])]

\* Vect128f(float i)
Vect128f1(f) == mm_set1_ps(f)

\* operator^
OpFXor(v, w) == mm_xor_ps(v, w)

\* operator~: operator^(Vect128f(0xFFFFFFFF)); the only one-argument
\* constructor that takes a number is Vect128f(float), so the unsigned literal
\* is converted to float
OpFNot(v) == OpFXor(v, Vect128f1(UIntHighToFloat(AllOnesUInt32)))

\* the most NOTs applied in a row
MaxNots == 2

\* the quadruples the caller builds v from: those of FloatInputs, and each
\* float of FloatList in all four lanes
FloatBroadcasts == {<<FloatList[i], FloatList[i], FloatList[i], FloatList[i]>> : i \in 1..Len(FloatList)}

\* auto v2 = ~v; auto v3 = ~v2; ...: fr receives the NOT of fa, then of itself
FNot ==
    /\ ~fault
    /\ vlast.op \in {"none", "fnot"}
    /\ vlast.k < MaxNots
    /\ fr' = OpFNot(IF vlast.k = 0 THEN fa ELSE fr)
    /\ vlast' = [op |-> "fnot", p |-> 0, k |-> vlast.k + 1]
    /\ UNCHANGED <<HAVE_SSE41, a_in, b_in, va, vb, vr, sr, buf, stored, fault>>
    /\ UNCHANGED <<fa_in, fb_in, fa, fb>>
    /\ UNCHANGED storage_vars

\* auto r = v2 == v: fb receives the comparison of fr with fa
FNotEq ==
    /\ ~fault
    /\ vlast.op = "fnot"
    /\ fb' = OpFEq(fr, fa)
    /\ vlast' = [op |-> "fnoteq", p |-> 0, k |-> vlast.k]
    /\ UNCHANGED <<HAVE_SSE41, a_in, b_in, va, vb, vr, sr, buf, stored, fault>>
    /\ UNCHANGED <<fa_in, fb_in, fa, fr>>
    /\ UNCHANGED storage_vars

\* a float vector built with the one-value or the four-value constructor
VecNotInit ==
    /\ fa_in \in FloatInputs \cup FloatBroadcasts
    /\ fb_in = <<>>
    /\ fa = IF fa_in \in FloatBroadcasts THEN Vect128f1(fa_in[1])
            ELSE Vect128f4(fa_in[1], fa_in[2], fa_in[3], fa_in[4])
    /\ fb = [k \in 1..16 |-> 0]
    /\ fr = [k \in 1..16 |-> 0]
    \* no Vect128i is in use
    /\ HAVE_SSE41 = FALSE
    /\ a_in = <<0, 0, 0, 0>>
    /\ b_in = <<0, 0, 0, 0>>
    /\ va = [k \in 1..16 |-> 0]
    /\ vb = [k \in 1..16 |-> 0]
    /\ vr = [k \in 1..16 |-> 0]
    /\ sr = 0
    /\ buf = <<>>
    /\ stored = [p |-> NullPtr, v |-> <<>>]
    /\ fault = FALSE
    /\ vlast = [op |-> "none", p |-> 0, k |-> 0]
    \* no AlignedStorage is in use
    /\ TSize = 1
    /\ Align = 1
    /\ block = [base |-> NullPtr, size |-> 0]
    /\ heap = <<>>
    /\ handles = <<>>
    /\ use_count = 0
    /\ freed = <<>>
    /\ oob = FALSE
    /\ last = NoOp
    /\ ret = NullPtr
    /\ err = "none"

VecNotNext == FNot \/ FNotEq

SpecVecNot == VecNotInit /\ [][VecNotNext]_vars

\* ------------------------------------------- Vect128i: lowest and highest
\* the order of two dwords as signed numbers, decided on their bytes: the top
\* byte with its sign bit flipped, then the lower bytes
SignedLess(x, y) ==
    LET X == <<(x[4] + 128) % 256, x[3], x[2], x[1]>>
        Y == <<(y[4] + 128) % 256, y[3], y[2], y[1]>>
    IN \E j \in 1..4 : X[j] < Y[j] /\ \A i \in 1..(j - 1) : X[i] = Y[i]

\* the same as unsigned numbers
UnsignedLess(x, y) ==
    \E j \in 1..4 : x[5 - j] < y[5 - j] /\ \A i \in 1..(j - 1) : x[5 - i] = y[5 - i]

\* A mutant: pminud, the unsigned minimum.
mm_min_epu32(a, b) ==
    (IF UnsignedLess(Lane(b, 0), Lane(a, 0)) THEN Lane(b, 0) ELSE Lane(a, 0))
        \o (IF UnsignedLess(Lane(b, 1), Lane(a, 1)) THEN Lane(b, 1) ELSE Lane(a, 1))
        \o (IF UnsignedLess(Lane(b, 2), Lane(a, 2)) THEN Lane(b, 2) ELSE Lane(a, 2))
        \o (IF UnsignedLess(Lane(b, 3), Lane(a, 3)) THEN Lane(b, 3) ELSE Lane(a, 3))

\* _mm_min_epi32 (pminsd)
mm_min_epi32(a, b) ==
    (IF SignedLess(Lane(b, 0), Lane(a, 0)) THEN Lane(b, 0) ELSE Lane(a, 0))
        \o (IF SignedLess(Lane(b, 1), Lane(a, 1)) THEN Lane(b, 1) ELSE Lane(a, 1))
        \o (IF SignedLess(Lane(b, 2), Lane(a, 2)) THEN Lane(b, 2) ELSE Lane(a, 2))
        \o (IF SignedLess(Lane(b, 3), Lane(a, 3)) THEN Lane(b, 3) ELSE Lane(a, 3))

\* _mm_max_epi32 (pmaxsd)
mm_max_epi32(a, b) ==
    (IF SignedLess(Lane(a, 0), Lane(b, 0)) THEN Lane(b, 0) ELSE Lane(a, 0))
        \o (IF SignedLess(Lane(a, 1), Lane(b, 1)) THEN Lane(b, 1) ELSE Lane(a, 1))
        \o (IF SignedLess(Lane(a, 2), Lane(b, 2)) THEN Lane(b, 2) ELSE Lane(a, 2))
        \o (IF SignedLess(Lane(a, 3), Lane(b, 3)) THEN Lane(b, 3) ELSE Lane(a, 3))

\* std::min(a, b) is (b < a) ? b : a, and std::max(a, b) is (a < b) ? b : a
StdMin(a, b) == IF b < a THEN b ELSE a
StdMax(a, b) == IF a < b THEN b ELSE a

LowestNative(v, v2) == mm_min_epi32(v, v2)

LowestFallback(v, v2) ==
    Vect128i4(StdMin(OpIndex(v, 0), OpIndex(v2, 0)), StdMin(OpIndex(v, 1), OpIndex(v2, 1)),
              StdMin(OpIndex(v, 2), OpIndex(v2, 2)), StdMin(OpIndex(v, 3), OpIndex(v2, 3)))

HighestNative(v, v2) == mm_max_epi32(v, v2)

HighestFallback(v, v2) ==
    Vect128i4(StdMax(OpIndex(v, 0), OpIndex(v2, 0)), StdMax(OpIndex(v, 1), OpIndex(v2, 1)),
              StdMax(OpIndex(v, 2), OpIndex(v2, 2)), StdMax(OpIndex(v, 3), OpIndex(v2, 3)))

\* lowest(const Vect128i&, const Vect128i&)
LowestI(v, v2) == IF HAVE_SSE41 THEN LowestNative(v, v2) ELSE LowestFallback(v, v2)

\* highest(const Vect128i&, const Vect128i&)
HighestI(v, v2) == IF HAVE_SSE41 THEN HighestNative(v, v2) ELSE HighestFallback(v, v2)

Lowest == Apply("lowest", LowestI(va, vb))
Highest == Apply("highest", HighestI(va, vb))

VecMinMaxNext == Lowest \/ Highest

SpecVecMinMax == VecOpsInit /\ [][VecMinMaxNext]_vars

\* ------------------------------------------- conversions and round
RECURSIVE Pow2(_)
Pow2(n) == IF n = 0 THEN 1 ELSE 2 * Pow2(n - 1)

\* the position of the highest set bit of n, 1 <= n < 2^31
HighBit(n) == CHOOSE p \in 0..30 : n \div Pow2(p) = 1

\* the significand of a float, with its hidden bit, and the exponent it is
\* scaled by: the value is Significand * 2^(Exponent - 150)
Significand(f) == IF f.e = 0 THEN f.m ELSE 8388608 + f.m
Exponent(f) == IF f.e = 0 THEN 1 ELSE f.e

\* cvtdq2ps on one lane: the nearest float, ties to even
IntToFloat(n) ==
    IF n = 0 THEN [s |-> 0, e |-> 0, m |-> 0]
    ELSE IF n = MinInt32 THEN [s |-> 1, e |-> 158, m |-> 0]
    ELSE LET sign == IF n < 0 THEN 1 ELSE 0
             mag == IF n < 0 THEN 0 - n ELSE n
             p == HighBit(mag)
         IN IF p <= 23 THEN PackFloat(sign, 127 + p, mag * Pow2(23 - p))
            ELSE PackFloat(sign, 127 + p,
                           RoundNearestEven(mag \div Pow2(p - 23), mag % Pow2(p - 23),
                                            Pow2(p - 24)))

\* A mutant: cvtps2dq, which rounds to nearest instead of truncating.
FloatToIntNearest(f) ==
    IF f.e >= 158 THEN MinInt32
    ELSE IF f.e < 126 THEN 0
    ELSE LET mag == IF f.e >= 150 THEN Significand(f) * Pow2(f.e - 150)
                    ELSE RoundNearestEven(Significand(f) \div Pow2(150 - f.e),
                                          Significand(f) % Pow2(150 - f.e),
                                          Pow2(149 - f.e))
         IN IF f.s = 1 THEN 0 - mag ELSE mag

\* cvttps2dq on one lane: the fraction is dropped; a NaN, an infinity or a
\* value that does not fit gives the integer indefinite 0x80000000
FloatToInt(f) ==
    IF f.e >= 158 THEN MinInt32
    ELSE IF f.e < 127 THEN 0
    ELSE LET mag == IF f.e >= 150 THEN Significand(f) * Pow2(f.e - 150)
                    ELSE Significand(f) \div Pow2(150 - f.e)
         IN IF f.s = 1 THEN 0 - mag ELSE mag

\* _mm_cvtepi32_ps
mm_cvtepi32_ps(a) ==
    FloatBytes(IntToFloat(FromBytes32(Lane(a, 0)))) \o FloatBytes(IntToFloat(FromBytes32(Lane(a, 1))))
        \o FloatBytes(IntToFloat(FromBytes32(Lane(a, 2)))) \o FloatBytes(IntToFloat(FromBytes32(Lane(a, 3))))

\* _mm_cvttps_epi32
mm_cvttps_epi32(a) ==
    ToBytes32(FloatToInt(FLane(a, 0))) \o ToBytes32(FloatToInt(FLane(a, 1)))
        \o ToBytes32(FloatToInt(FLane(a, 2))) \o ToBytes32(FloatToInt(FLane(a, 3)))

\* Vect128i::operator Vect128f
OpToFloat(v) == mm_cvtepi32_ps(v)

\* Vect128f::to_int
OpToInt(v) == mm_cvttps_epi32(v)

\* addps on one pair of lanes, round to nearest even.  The significands carry
\* three more bits (guard, round, sticky) through alignment and normalisation.
ShiftSticky(v, d) ==
    IF d >= 28 THEN (IF v = 0 THEN 0 ELSE 1)
    ELSE LET q == v \div Pow2(d)
         IN IF v % Pow2(d) # 0 /\ q % 2 = 0 THEN q + 1 ELSE q

\* the sum [r, exp] brought to 2^26 <= r < 2^27, or to exp = 1 (a denormal)
RECURSIVE Normalize(_, _)
Normalize(r, exp) ==
    IF r >= 134217728 THEN [r |-> ShiftSticky(r, 1), exp |-> exp + 1]
    ELSE IF r < 67108864 /\ exp > 1 THEN Normalize(2 * r, exp - 1)
    ELSE [r |-> r, exp |-> exp]

Quiet(f) == [s |-> f.s, e |-> 255, m |-> IF f.m < 4194304 THEN f.m + 4194304 ELSE f.m]

\* the default NaN of an invalid operation
IndefiniteNaN == [s |-> 1, e |-> 255, m |-> 4194304]

AddFinite(x, y) ==
    LET xBig == \/ Exponent(x) > Exponent(y)
                \/ (Exponent(x) = Exponent(y) /\ Significand(x) >= Significand(y))
        b == IF xBig THEN x ELSE y
        c == IF xBig THEN y ELSE x
        B == 8 * Significand(b)
        C == ShiftSticky(8 * Significand(c), Exponent(b) - Exponent(c))
        sum == IF b.s = c.s THEN B + C ELSE B - C
        n == Normalize(sum, Exponent(b))
        q == RoundNearestEven(n.r \div 8, n.r % 8, 4)
        exp == IF q = 16777216 THEN n.exp + 1 ELSE n.exp
        sig == IF q = 16777216 THEN 8388608 ELSE q
    IN IF sum = 0 THEN [s |-> IF b.s = c.s THEN b.s ELSE 0, e |-> 0, m |-> 0]
       ELSE IF exp >= 255 THEN [s |-> b.s, e |-> 255, m |-> 0]
       ELSE IF sig < 8388608 THEN [s |-> b.s, e |-> 0, m |-> sig]
       ELSE [s |-> b.s, e |-> exp, m |-> sig - 8388608]

AddFloat(x, y) ==
    IF IsNaN(x) THEN Quiet(x)
    ELSE IF IsNaN(y) THEN Quiet(y)
    ELSE IF x.e = 255 THEN (IF y.e = 255 /\ y.s # x.s THEN IndefiniteNaN ELSE x)
    ELSE IF y.e = 255 THEN y
    ELSE AddFinite(x, y)

\* _mm_add_ps
mm_add_ps(a, b) ==
    FloatBytes(AddFloat(FLane(a, 0), FLane(b, 0))) \o FloatBytes(AddFloat(FLane(a, 1), FLane(b, 1)))
        \o FloatBytes(AddFloat(FLane(a, 2), FLane(b, 2))) \o FloatBytes(AddFloat(FLane(a, 3), FLane(b, 3)))

\* Vect128f::operator+
OpFAdd(v, w) == mm_add_ps(v, w)

\* 0.5
PHalf == [s |-> 0, e |-> 126, m |-> 0]

\* round(const Vect128f&): (v + Vect128f(0.5)).to_int()
Round(v) == OpToInt(OpFAdd(v, Vect128f1(PHalf)))

\* ------------------------------------- conversions and round: the program
\* 1.9f, 23.0f, -0.6f, -1.6f, 2.5f, the float below 0.5, 2^23 + 1, 2^24, -2^31
P19 == [s |-> 0, e |-> 127, m |-> 7549747]
N19 == [s |-> 1, e |-> 127, m |-> 7549747]
P23 == [s |-> 0, e |-> 131, m |-> 3670016]
NHalf == [s |-> 1, e |-> 126, m |-> 0]
N06 == [s |-> 1, e |-> 126, m |-> 1677722]
N16 == [s |-> 1, e |-> 127, m |-> 5033165]
P25 == [s |-> 0, e |-> 128, m |-> 2097152]
N25 == [s |-> 1, e |-> 128, m |-> 2097152]
PBelowHalf == [s |-> 0, e |-> 125, m |-> 8388607]
POdd23 == [s |-> 0, e |-> 150, m |-> 1]
PTwo24 == [s |-> 0, e |-> 151, m |-> 0]
NTwo31 == [s |-> 1, e |-> 158, m |-> 0]

ConvIntList ==
    <<0, 1, -1, 23, 16777215, 16777216, -16777216, 16777217, -16777217, 16777219,
      2147483647, MinInt32, 2147483583, -3>>

ConvFloatList ==
    <<P19, N19, P23, PZero, N06, N16, PHalf, NHalf, P25, N25, PTenth, P1203,
      PBelowHalf, POdd23, PTwo24, PTwo31, NTwo31, PBig, QNaN, NInf, NZero, PTiny>>

ConvIntInputs ==
    {[k \in 1..Lanes |-> ConvIntList[((i + k - 2) % Len(ConvIntList)) + 1]] : i \in 1..Len(ConvIntList)}
        \cup {<<23, 23, 23, 23>>}

ConvFloatInputs ==
    {[k \in 1..Lanes |-> ConvFloatList[((i + k - 2) % Len(ConvFloatList)) + 1]] : i \in 1..Len(ConvFloatList)}
        \cup {<<P23, P23, P23, P23>>}

\* Vect128f vect2 = vect: fr receives the conversion of va
ToFloat ==
    /\ ~fault
    /\ fr' = OpToFloat(va)
    /\ vlast' = [op |-> "to_float", p |-> 0, k |-> 0]
    /\ UNCHANGED <<HAVE_SSE41, a_in, b_in, va, vb, vr, sr, buf, stored, fault>>
    /\ UNCHANGED <<fa_in, fb_in, fa, fb>>
    /\ UNCHANGED storage_vars

\* Vect128i vect2 = vect.to_int(): vr receives the conversion of fa
ToInt ==
    /\ ~fault
    /\ vr' = OpToInt(fa)
    /\ vlast' = [op |-> "to_int", p |-> 0, k |-> 0]
    /\ UNCHANGED <<HAVE_SSE41, a_in, b_in, va, vb, sr, buf, stored, fault>>
    /\ UNCHANGED float_vars
    /\ UNCHANGED storage_vars

\* Vect128f(va).to_int(): fr receives the conversion of va, and vr that of fr
ToFloatToInt ==
    /\ ~fault
    /\ fr' = OpToFloat(va)
    /\ vr' = OpToInt(fr')
    /\ vlast' = [op |-> "to_float_to_int", p |-> 0, k |-> 0]
    /\ UNCHANGED <<HAVE_SSE41, a_in, b_in, va, vb, sr, buf, stored, fault>>
    /\ UNCHANGED <<fa_in, fb_in, fa, fb>>
    /\ UNCHANGED storage_vars

\* round(fa), its result assigned to vr
RoundV ==
    /\ ~fault
    /\ vr' = Round(fa)
    /\ vlast' = [op |-> "round", p |-> 0, k |-> 0]
    /\ UNCHANGED <<HAVE_SSE41, a_in, b_in, va, vb, sr, buf, stored, fault>>
    /\ UNCHANGED float_vars
    /\ UNCHANGED storage_vars

\* an integer vector and a float vector
VecConvInit ==
    /\ a_in \in ConvIntInputs
    /\ fa_in \in ConvFloatInputs
    /\ va = IF a_in = <<23, 23, 23, 23>> THEN Vect128i1(23)
            ELSE Vect128i4(a_in[1], a_in[2], a_in[3], a_in[4])
    /\ fa = IF fa_in = <<P23, P23, P23, P23>> THEN Vect128f1(P23)
            ELSE Vect128f4(fa_in[1], fa_in[2], fa_in[3], fa_in[4])
    /\ vr = Vect128i1(0)
    /\ fr = Vect128f1(PZero)
    /\ HAVE_SSE41 = FALSE
    /\ b_in = <<0, 0, 0, 0>>
    /\ vb = [k \in 1..16 |-> 0]
    /\ fb_in = <<>>
    /\ fb = [k \in 1..16 |-> 0]
    /\ sr = 0
    /\ buf = <<>>
    /\ stored = [p |-> NullPtr, v |-> <<>>]
    /\ fault = FALSE
    /\ vlast = [op |-> "none", p |-> 0, k |-> 0]
    \* no AlignedStorage is in use
    /\ TSize = 1
    /\ Align = 1
    /\ block = [base |-> NullPtr, size |-> 0]
    /\ heap = <<>>
    /\ handles = <<>>
    /\ use_count = 0
    /\ freed = <<>>
    /\ oob = FALSE
    /\ last = NoOp
    /\ ret = NullPtr
    /\ err = "none"

VecConvNext == ToFloat \/ ToInt \/ ToFloatToInt \/ RoundV

SpecVecConv == VecConvInit /\ [][VecConvNext]_vars

\* ------------------------------------------- Vect128i: in-place operators
\* operator+=, -=, *=, &=, |=, ^=: val = operator op (v); the value val takes
OpAddAssign(v, w) == OpAdd(v, w)

\* A mutant: the operands of the subtraction change places.
OpSubAssignSwapped(v, w) == OpSub(w, v)

OpSubAssign(v, w) == OpSub(v, w)
OpMulAssign(v, w) == OpMul(v, w)
OpAndAssign(v, w) == OpAnd(v, w)
OpOrAssign(v, w) == OpOr(v, w)
OpXorAssign(v, w) == OpXor(v, w)

\* the most in-place operators applied in a row
MaxAssigns == 1

InPlaceOps ==
    {"add_assign", "sub_assign", "mul_assign", "and_assign", "or_assign", "xor_assign"}

\* no operation has run yet other than in-place operators
OnlyAssigned == vlast.op \in {"none"} \cup InPlaceOps

\* va op= vb: val of va is assigned; vlast.k counts the in-place operators
ApplyAssign(name, result) ==
    /\ ~fault
    /\ OnlyAssigned
    /\ vlast.k < MaxAssigns
    /\ va' = result
    /\ vlast' = [op |-> name, p |-> 0, k |-> vlast.k + 1]
    /\ UNCHANGED <<HAVE_SSE41, a_in, b_in, vb, vr, sr, buf, stored, fault>>
    /\ UNCHANGED <<storage_vars, float_vars>>

AddAssign == ApplyAssign("add_assign", OpAddAssign(va, vb))
SubAssign == ApplyAssign("sub_assign", OpSubAssign(va, vb))
MulAssign == ApplyAssign("mul_assign", OpMulAssign(va, vb))
AndAssign == ApplyAssign("and_assign", OpAndAssign(va, vb))
OrAssign == ApplyAssign("or_assign", OpOrAssign(va, vb))
XorAssign == ApplyAssign("xor_assign", OpXorAssign(va, vb))

\* the quadruples of the arithmetic tests, and two windows of LaneList
InPlaceInputs ==
    {<<0, -1, 1, 2147483647>>, <<1, 1, 1, 1>>, <<0, -1, 1, MinInt32>>, Window(4), Window(7)}

\* two vectors built with the four-value constructor, and an array in memory
VecInPlaceInit ==
    /\ HAVE_SSE41 \in BOOLEAN
    /\ a_in \in InPlaceInputs
    /\ b_in \in InPlaceInputs
    /\ va = Vect128i4(a_in[1], a_in[2], a_in[3], a_in[4])
    /\ vb = Vect128i4(b_in[1], b_in[2], b_in[3], b_in[4])
    /\ vr = Vect128i1(0)
    /\ sr = 0
    /\ buf = ArrayBytes(InitialArray, 1)
    /\ stored = [p |-> NullPtr, v |-> <<>>]
    /\ fault = FALSE
    /\ vlast = [op |-> "none", p |-> 0, k |-> 0]
    \* no Vect128f is in use
    /\ fa_in = <<>>
    /\ fb_in = <<>>
    /\ fa = [k \in 1..16 |-> 0]
    /\ fb = [k \in 1..16 |-> 0]
    /\ fr = [k \in 1..16 |-> 0]
    \* no AlignedStorage is in use
    /\ TSize = 1
    /\ Align = 1
    /\ block = [base |-> NullPtr, size |-> 0]
    /\ heap = <<>>
    /\ handles = <<>>
    /\ use_count = 0
    /\ freed = <<>>
    /\ oob = FALSE
    /\ last = NoOp
    /\ ret = NullPtr
    /\ err = "none"

\* in-place operators, then one binary operator, operator[] or store
VecInPlaceNext ==
    \/ AddAssign \/ SubAssign \/ MulAssign \/ AndAssign \/ OrAssign \/ XorAssign
    \/ (OnlyAssigned /\ VecOpsNext)
    \/ (OnlyAssigned /\ \E k \in 0..(Lanes - 1) : Index(k))
    \/ (OnlyAssigned /\ \E p \in VecPtrs : StoreU(p))
    \/ (OnlyAssigned /\ \E p \in VecPtrs : Store(p))

SpecVecInPlace == VecInPlaceInit /\ [][VecInPlaceNext]_vars

\* ------------------------------------------------ Vect128i: properties
\* the four lanes of a vector, each read with operator[]
LanesOf(v) == [k \in 1..Lanes |-> OpIndex(v, k - 1)]

\* x + y reduced into the range of int32_t
WrapAdd32(x, y) ==
    IF x >= 0 /\ y >= 0 /\ x > 2147483647 - y
        THEN ((x - 2147483647) - 1) + ((y - 2147483647) - 1)
    ELSE IF x < 0 /\ y < 0 /\ x < MinInt32 - y
        THEN ((x + 2147483647) + 1) + ((y + 2147483647) + 1)
    ELSE x + y

\* -y reduced into the range of int32_t
WrapNeg32(y) == IF y = MinInt32 THEN MinInt32 ELSE 0 - y

\* x - y reduced into the range of int32_t
WrapSub32(x, y) == WrapAdd32(x, WrapNeg32(y))

\* (u * v) mod 2^16 for u, v in 0..65535, v taken a byte at a time
MulMod16(u, v) == ((u * (v % 256)) + (256 * ((u * (v \div 256)) % 256))) % 65536

\* x * y reduced into the range of int32_t, on 16-bit halves: with
\* x = xh 2^16 + xl and y = yh 2^16 + yl, the product modulo 2^32 is
\* xl yl + 2^16 ((xh yl + xl yh) mod 2^16)
WrapMul32(x, y) ==
    LET xl == x % 65536
        xh == (x \div 65536) % 65536
        yl == y % 65536
        yh == (y \div 65536) % 65536
        A == xl * (yl % 256)
        B == xl * (yl \div 256)
        lo == (A + (256 * (B % 256))) % 65536
        carry == ((A \div 256) + B) \div 256
        hi == (carry + MulMod16(xh, yl) + MulMod16(xl, yh)) % 65536
    IN ((IF hi >= 32768 THEN hi - 65536 ELSE hi) * 65536) + lo

\* C6: +, - and * are lane-wise signed 32-bit operations that wrap modulo 2^32
\* and signal no error: result lane k is a[k] op b[k] reduced into int32_t,
\* whatever the other lanes hold; (0,-1,1,2147483647) + (1,1,1,1) is
\* (1,0,2,-2147483648) and (0,-1,1,-2147483648) - (1,1,1,1) is
\* (-1,-2,0,2147483647).
C6_WrappingArithmetic ==
    /\ vlast.op = "add" =>
          \A k \in 1..Lanes : LanesOf(vr)[k] = WrapAdd32(a_in[k], b_in[k])
    /\ vlast.op = "sub" =>
          \A k \in 1..Lanes : LanesOf(vr)[k] = WrapSub32(a_in[k], b_in[k])
    /\ vlast.op = "mul" =>
          \A k \in 1..Lanes : LanesOf(vr)[k] = WrapMul32(a_in[k], b_in[k])
    /\ (vlast.op = "add" /\ a_in = <<0, -1, 1, 2147483647>> /\ b_in = <<1, 1, 1, 1>>)
          => LanesOf(vr) = <<1, 0, 2, MinInt32>>
    /\ (vlast.op = "sub" /\ a_in = <<0, -1, 1, MinInt32>> /\ b_in = <<1, 1, 1, 1>>)
          => LanesOf(vr) = <<-1, -2, 0, 2147483647>>
    /\ vlast.op \in {"add", "sub", "mul"} => (err = "none" /\ ~fault)

\* C6 witness: the subtraction of the claim has run and wrapped in its last lane.
C6_Witness ==
    /\ vlast.op = "sub"
    /\ a_in = <<0, -1, 1, MinInt32>>
    /\ b_in = <<1, 1, 1, 1>>
    /\ LanesOf(vr) = <<-1, -2, 0, 2147483647>>

\* C7: the multiply fallback (two 64-bit unsigned multiplies of lanes 0,2 and
\* of lanes 1,3 after a 4-byte shift, then shuffle and unpack) gives in all
\* four lanes, for all inputs, the result of the native path: lane k is the low
\* 32 bits of a[k] * b[k], lanes in their order 0,1,2,3.
C7_MultiplyFallback ==
    /\ OpMulFallback(va, vb) = OpMulNative(va, vb)
    /\ \A k \in 1..Lanes :
          LanesOf(OpMulFallback(va, vb))[k] = WrapMul32(a_in[k], b_in[k])
    /\ (vlast.op = "mul" /\ ~HAVE_SSE41) => vr = OpMulNative(va, vb)

\* C7 witness: the fallback has multiplied lanes of both signs whose products
\* leave 32 bits, with a different result in every lane.
C7_Witness ==
    /\ vlast.op = "mul"
    /\ ~HAVE_SSE41
    /\ a_in = <<-1, 2147483647, MinInt32, 65536>>
    /\ b_in = <<46341, -3, 0, 1>>
    /\ LanesOf(vr) = <<-46341, -2147483645, 0, 65536>>

\* C8: a + b equals b + a and a * b equals b * a in every lane, on the native
\* and on the fallback multiply path.
C8_Commutative ==
    /\ vlast.op = "add" => vr = OpAdd(vb, va)
    /\ vlast.op = "mul" => vr = OpMul(vb, va)
    /\ OpMulNative(va, vb) = OpMulNative(vb, va)
    /\ OpMulFallback(va, vb) = OpMulFallback(vb, va)

\* C8 witness: the fallback has multiplied two different vectors, to a non-zero
\* product.
C8_Witness ==
    /\ vlast.op = "mul"
    /\ ~HAVE_SSE41
    /\ a_in = <<46341, -3, 0, 1>>
    /\ b_in = <<65536, 46341, -3, 0>>
    /\ vr = OpMul(vb, va)
    /\ LanesOf(vr)[2] = -139023

\* whether the relation of a comparison operator holds between two int32_t
Holds(op, x, y) ==
    CASE op = "lt" -> x < y
      [] op = "le" -> x <= y
      [] op = "gt" -> x > y
      [] op = "ge" -> x >= y
      [] op = "eq" -> x = y
      [] op = "ne" -> x # y

\* the int32_t with every bit of x flipped
Flipped(x) == (0 - 1) - x

\* C9: every integer comparison returns lanes that are -1 or 0 and nothing
\* else, lane k being -1 exactly when the signed relation holds between a[k]
\* and b[k]; each lane of a <= b is the complement of that lane of a > b, and
\* likewise for >= and <, != and ==.
C9_IntegerMasks ==
    /\ vlast.op \in {"lt", "le", "gt", "ge", "eq", "ne"} =>
          \A k \in 1..Lanes :
              /\ LanesOf(vr)[k] \in {0 - 1, 0}
              /\ (LanesOf(vr)[k] = 0 - 1) <=> Holds(vlast.op, a_in[k], b_in[k])
    /\ \A k \in 1..Lanes :
          /\ LanesOf(OpLe(va, vb))[k] = Flipped(LanesOf(OpGt(va, vb))[k])
          /\ LanesOf(OpGe(va, vb))[k] = Flipped(LanesOf(OpLt(va, vb))[k])
          /\ LanesOf(OpNe(va, vb))[k] = Flipped(LanesOf(OpEq(va, vb))[k])

\* C9 witness: a <= b has run on lanes that are equal, greater and less.
C9_Witness ==
    /\ vlast.op = "le"
    /\ a_in = <<0, 1, -1, 2147483647>>
    /\ b_in = <<0, 0, 0, 0>>
    /\ LanesOf(vr) = <<-1, 0, -1, 0>>

\* element e of the int32_t array in buf
BufElem(e) == FromBytes32(SubSeq(buf, (4 * e) + 1, (4 * e) + 4))

\* C5: a vector stored with store or storeu and loaded back with load or loadu
\* has the lanes 0..3 of the vector stored, in order; a vector loaded from a
\* buffer b reads b[k] in lane k with operator[]; and the lanes are in the order
\* of the four-value constructor's arguments (the first is lane 0).
C5_StoreLoadRoundTrip ==
    /\ vlast.op \in {"store", "storeu"} =>
          \A k \in 0..(Lanes - 1) : BufElem(vlast.p + k) = a_in[k + 1]
    /\ vlast.op \in {"load", "loadu"} =>
          \A k \in 0..(Lanes - 1) : OpIndex(vr, k) = BufElem(vlast.p + k)
    /\ (vlast.op \in {"load", "loadu"} /\ stored.v # <<>> /\ stored.p = vlast.p) =>
          /\ vr = stored.v
          /\ \A k \in 0..(Lanes - 1) : OpIndex(vr, k) = OpIndex(stored.v, k)
          /\ \A k \in 0..(Lanes - 1) : OpIndex(vr, k) = a_in[k + 1]
    /\ vlast.op = "index" => sr = a_in[vlast.k + 1]

\* C5 witness: a vector of both signs and both extremes was stored at the
\* aligned start of the buffer and loaded back with the aligned load.
C5_Witness ==
    /\ vlast = [op |-> "load", p |-> 0, k |-> 0]
    /\ stored = [p |-> 0, v |-> va]
    /\ a_in = <<-1, 1, 2147483647, MinInt32>>
    /\ LanesOf(vr) = a_in
    /\ ~fault

\* ------------------------------------------------ Vect128f: properties
\* the floats of FloatList that are numbers, from the least to the greatest;
\* the two zeros are one number
Ascending ==
    <<{NInf}, {NBig}, {NOne}, {NZero, PZero}, {PTiny}, {PTenth}, {POne}, {P1203},
      {PTwo31}, {PBig}, {PInf}>>

\* the place of a number in that order
Rank(f) == CHOOSE i \in 1..Len(Ascending) : f \in Ascending[i]

IsNumber(f) == \E i \in 1..Len(Ascending) : f \in Ascending[i]

\* whether the relation of a float comparison holds between two numbers
HoldsF(op, x, y) ==
    CASE op = "flt" -> Rank(x) < Rank(y)
      [] op = "fle" -> Rank(x) <= Rank(y)
      [] op = "fgt" -> Rank(x) > Rank(y)
      [] op = "fge" -> Rank(x) >= Rank(y)
      [] op = "feq" -> Rank(x) = Rank(y)
      [] op = "fne" -> Rank(x) # Rank(y)

\* C10: every float comparison returns lanes that are the all-ones pattern
\* 0xFFFFFFFF (which reads as NaN) or the all-zero pattern (+0.0) and nothing
\* else; for operands that are not NaN lane k is all-ones exactly when the
\* relation holds between a[k] and b[k]; for i = (0, 1, -1, 2147483647.0) and
\* s = (0, 0, 0, 1), lane 3 of i > s is NaN and lane 0 is 0.0.
C10_FloatMasks ==
    /\ vlast.op \in {"flt", "fle", "fgt", "fge", "feq", "fne"} =>
          \A k \in 1..Lanes :
              /\ OpIndexF(fr, k - 1) \in {OnesNaN, PZero}
              /\ Lane(fr, k - 1) \in {<<255, 255, 255, 255>>, <<0, 0, 0, 0>>}
              /\ (IsNumber(fa_in[k]) /\ IsNumber(fb_in[k])) =>
                    ((Lane(fr, k - 1) = <<255, 255, 255, 255>>)
                        <=> HoldsF(vlast.op, fa_in[k], fb_in[k]))
    /\ (/\ vlast.op = "fgt"
        /\ fa_in = <<PZero, POne, NOne, PTwo31>>
        /\ fb_in = <<PZero, PZero, PZero, POne>>)
          => (IsNaN(OpIndexF(fr, 3)) /\ OpIndexF(fr, 0) = PZero)
    /\ IsNaN(OnesNaN) /\ ~IsNaN(PZero)

\* C10 witness: i > s has run on the vectors of the claim.
C10_Witness ==
    /\ vlast.op = "fgt"
    /\ fa_in = <<PZero, POne, NOne, PTwo31>>
    /\ fb_in = <<PZero, PZero, PZero, POne>>
    /\ IsNaN(OpIndexF(fr, 3))
    /\ IsNaN(OpIndexF(fr, 1))
    /\ OpIndexF(fr, 0) = PZero
    /\ OpIndexF(fr, 2) = PZero

\* ------------------------------------------- Vect128f NOT: properties
\* the four bytes of a lane with every bit flipped
FlipLane(b) == [j \in 1..4 |-> 255 - b[j]]

\* C11 as claimed: float NOT flips every bit of every lane (lane XOR
\* 0xFFFFFFFF), as integer NOT does.
C11_FloatNotFlipsEveryBit ==
    (vlast.op = "fnot" /\ vlast.k = 1) =>
        \A k \in 0..(Lanes - 1) : Lane(fr, k) = FlipLane(Lane(fa, k))

\* C12 as claimed: float NOT is not an involution; for v = 1.203 in all four
\* lanes the lanes of ~(~v) are not equal to the lanes of v.
C12_DoubleNotDiffers ==
    (/\ vlast.op = "fnoteq"
     /\ vlast.k = 2
     /\ fa_in = <<P1203, P1203, P1203, P1203>>)
        => \A k \in 0..(Lanes - 1) : Lane(fb, k) = <<0, 0, 0, 0>>

\* C12, amended: float NOT is an involution on bit patterns: an even number of
\* NOTs gives back every bit of v, so each lane of v that is not NaN compares
\* equal to the same lane of ~(~v) (the lane of the == mask is all-ones, which
\* reads as NaN); after an odd number of NOTs every lane compares unequal to
\* v (the lane of the == mask is 0.0).
C12_FloatNotInvolution ==
    /\ (vlast.op \in {"fnot", "fnoteq"} /\ vlast.k % 2 = 0) => fr = fa
    /\ (vlast.op = "fnoteq" /\ vlast.k % 2 = 0) =>
          \A k \in 0..(Lanes - 1) :
              ~IsNaN(OpIndexF(fa, k)) => IsNaN(OpIndexF(fb, k))
    /\ (vlast.op = "fnot" /\ vlast.k % 2 = 1) =>
          \A k \in 0..(Lanes - 1) : Lane(fr, k) # Lane(fa, k)
    /\ (vlast.op = "fnoteq" /\ vlast.k % 2 = 1) =>
          \A k \in 0..(Lanes - 1) : OpIndexF(fb, k) = PZero

\* C12 witness: v = 1.203 in every lane, ~(~v) has been compared with v and
\* every lane of the comparison reads as NaN.
C12_Witness ==
    /\ vlast.op = "fnoteq"
    /\ vlast.k = 2
    /\ fa_in = <<P1203, P1203, P1203, P1203>>
    /\ fa = FloatBytes(P1203) \o FloatBytes(P1203) \o FloatBytes(P1203) \o FloatBytes(P1203)
    /\ fr = fa
    /\ \A k \in 0..(Lanes - 1) : IsNaN(OpIndexF(fb, k))

\* ------------------------------------- lowest and highest: properties
\* C13: lowest and highest return in every lane the signed 32-bit minimum and
\* maximum of v[k] and v2[k], and the native path and the scalar std::min /
\* std::max fallback give the same vector for all inputs.
C13_LowestHighest ==
    /\ LowestNative(va, vb) = LowestFallback(va, vb)
    /\ HighestNative(va, vb) = HighestFallback(va, vb)
    /\ vlast.op = "lowest" =>
          \A k \in 1..Lanes :
              /\ LanesOf(vr)[k] \in {a_in[k], b_in[k]}
              /\ LanesOf(vr)[k] <= a_in[k] /\ LanesOf(vr)[k] <= b_in[k]
    /\ vlast.op = "highest" =>
          \A k \in 1..Lanes :
              /\ LanesOf(vr)[k] \in {a_in[k], b_in[k]}
              /\ LanesOf(vr)[k] >= a_in[k] /\ LanesOf(vr)[k] >= b_in[k]

\* C13 witness: the native lowest has run on lanes that hold INT32_MIN,
\* INT32_MAX and negative values, taking lanes from both operands.
C13_Witness ==
    /\ vlast.op = "lowest"
    /\ HAVE_SSE41
    /\ a_in = <<-1, 2147483647, MinInt32, 65536>>
    /\ b_in = <<0, 1, -1, 2147483647>>
    /\ LanesOf(vr) = <<-1, 1, MinInt32, 65536>>

\* ------------------------------------- conversions and round: properties
\* the magnitude of an int32_t other than INT32_MIN
Abs(n) == IF n < 0 THEN 0 - n ELSE n

FLanesOf(v) == [k \in 1..Lanes |-> OpIndexF(v, k - 1)]

\* a float that is a number (not a NaN, not an infinity)
Finite(f) == f.e < 255

\* a number whose integer part fits in int32_t
Fits(f) == f.e < 158 \/ f = NTwo31

\* n is the value of the number f with its fraction dropped:
\* |n| * 2^k <= significand < (|n| + 1) * 2^k, where the value of f is
\* significand / 2^k
TruncatedTo(f, n) ==
    IF n = MinInt32 THEN f = NTwo31
    ELSE /\ f.e < 158
         /\ n > 0 => f.s = 0
         /\ n < 0 => f.s = 1
         /\ LET k == 150 - Exponent(f)
            IN IF k <= 0 THEN /\ Abs(n) % Pow2(0 - k) = 0
                              /\ Abs(n) \div Pow2(0 - k) = Significand(f)
               ELSE IF k >= 24 THEN n = 0
               ELSE /\ Abs(n) <= Pow2(24 - k)
                    /\ Abs(n) * Pow2(k) <= Significand(f)
                    /\ Significand(f) < (Abs(n) + 1) * Pow2(k)

\* the float f has the numeric value of the integer n
SameValue(f, n) ==
    IF n = 0 THEN f.e = 0 /\ f.m = 0
    ELSE IF n = MinInt32 THEN f = NTwo31
    ELSE /\ Finite(f)
         /\ f.s = (IF n < 0 THEN 1 ELSE 0)
         /\ LET k == Exponent(f) - 150
            IN IF k <= 0 THEN /\ k >= -23
                              /\ Abs(n) <= Pow2(24 + k)
                              /\ Abs(n) * Pow2(0 - k) = Significand(f)
               ELSE k <= 7 /\ Significand(f) * Pow2(k) = Abs(n)

\* no float is nearer to the integer n than f is, and of two floats equally
\* near f is the one with the even significand
Nearest(f, n) ==
    \/ SameValue(f, n)
    \/ /\ n # 0 /\ n # MinInt32
       /\ Finite(f)
       /\ f.s = (IF n < 0 THEN 1 ELSE 0)
       /\ LET k == Exponent(f) - 150
          IN IF k = 8 THEN f.m = 0 /\ Abs(n) >= 2147483584
             ELSE /\ k >= 1 /\ k <= 7
                  /\ LET d == Abs(Abs(n) - (Significand(f) * Pow2(k)))
                     IN /\ d <= Pow2(k - 1)
                        /\ d = Pow2(k - 1) => Significand(f) % 2 = 0

ClosestTo(f, n) ==
    IF Exponent(f) >= 150 THEN SameValue(f, n)
    ELSE LET k == 150 - Exponent(f)
         IN IF n = 0 THEN k >= 25 \/ Significand(f) <= Pow2(k - 1)
            ELSE /\ n # MinInt32
                 /\ f.s = (IF n < 0 THEN 1 ELSE 0)
                 /\ k <= 24
                 /\ Abs(n) <= Pow2(24 - k) + 1
                 /\ Abs((Abs(n) * Pow2(k)) - Significand(f)) <= Pow2(k - 1)

\* C15 as claimed: round(v) returns in every lane the integer closest to the
\* lane's value, for every lane whose result fits in int32, negative values
\* included: -0.6 gives -1 and -1.6 gives -2.
C15_RoundClosest ==
    vlast.op = "round" =>
        \A k \in 1..Lanes :
            /\ (Finite(fa_in[k]) /\ fa_in[k].e < 158)
                  => ClosestTo(fa_in[k], LanesOf(vr)[k])
            /\ fa_in[k] = N06 => LanesOf(vr)[k] = -1
            /\ fa_in[k] = N16 => LanesOf(vr)[k] = -2

\* ------------------------------------- in-place operators: properties
BinaryOps ==
    {"add", "sub", "mul", "and", "or", "xor", "not", "lt", "le", "gt", "ge", "eq", "ne"}

\* C18: each in-place operator leaves the left operand equal, in every lane,
\* to the result of the binary operator on the values the operands had before
\* the call, and leaves the right operand unchanged; the binary operators,
\* operator[] and store/storeu leave both operands unchanged.
C18_InPlaceOperators ==
    [][/\ vlast'.op \in InPlaceOps => vb' = vb
       /\ vlast'.op = "add_assign" =>
             /\ va' = OpAdd(va, vb)
             /\ \A k \in 1..Lanes :
                   LanesOf(va')[k] = WrapAdd32(LanesOf(va)[k], LanesOf(vb)[k])
       /\ vlast'.op = "sub_assign" =>
             /\ va' = OpSub(va, vb)
             /\ \A k \in 1..Lanes :
                   LanesOf(va')[k] = WrapSub32(LanesOf(va)[k], LanesOf(vb)[k])
       /\ vlast'.op = "mul_assign" =>
             /\ va' = OpMul(va, vb)
             /\ \A k \in 1..Lanes :
                   LanesOf(va')[k] = WrapMul32(LanesOf(va)[k], LanesOf(vb)[k])
       /\ vlast'.op = "and_assign" => va' = OpAnd(va, vb)
       /\ vlast'.op = "or_assign" => va' = OpOr(va, vb)
       /\ vlast'.op = "xor_assign" => va' = OpXor(va, vb)
       /\ vlast'.op \in BinaryOps \cup {"index", "storeu", "store", "trap"} =>
             (va' = va /\ vb' = vb)]_vars

\* C18 witness: -= has run on the vectors of the subtraction test, wrapping
\* in the last lane, and the right operand is as constructed.
C18_Witness ==
    /\ vlast.op = "sub_assign"
    /\ a_in = <<0, -1, 1, MinInt32>>
    /\ b_in = <<1, 1, 1, 1>>
    /\ LanesOf(va) = <<-1, -2, 0, 2147483647>>
    /\ LanesOf(vb) = <<1, 1, 1, 1>>

====
